---- MODULE Spec2Model ----
(***************************************************************************)
(* The live notification channel of the insyd client: the useInsydSocket   *)
(* hook (one instance, mounted by SocketProvider inside AuthProvider), the *)
(* WebSocket handles it creates, its heartbeat interval and retry timers,  *)
(* and the auth store whose identity it reads.                             *)
(*                                                                         *)
(* Every handler of the hook is one action.  The hook's own state (the     *)
(* React state `status` and the five refs) travels through the handlers as *)
(* a record, so that a handler that calls cleanup() and then connect() is  *)
(* the composition of the two operators.  `status` is the value last       *)
(* passed to setStatus while the hook is mounted.                          *)
(*                                                                         *)
(* The browser is the environment: it opens or fails a connecting socket,  *)
(* closes sockets cleanly or not, fires timers at any time.  A socket's    *)
(* readyState changes in the same task that delivers the event, so the     *)
(* change and the handler are one step.  An error event is followed by the *)
(* close event of the same socket in the same task (pendingClose).         *)
(*                                                                         *)
(* The traffic of the channel (frames in, send(), resetUnread()) reads the *)
(* hook's refs and writes only the unread count, which nothing else reads: *)
(* Next is the connection alone, NextMessages adds the traffic.            *)
(*                                                                         *)
(* The dashboard page keeps a WebSocket of its own and the posts with      *)
(* their likes; NextDashboard and NextLikes add the page.                  *)
(***************************************************************************)
EXTENDS Integers, FiniteSets, Sequences, TLC

\* ----------------------------------------------------------------- bounds
\* Socket objects alive at once (a closed socket nobody references is
\* collected and its slot reused).
MaxSockets == 2
\* Retry timers alive at once.
MaxTimers == 2
\* The unread count the model lets notification frames reach.
MaxUnread == 2
\* Socket objects of the dashboard page alive at once.
MaxPageSockets == 2
\* The entries the model lets the likes of a post reach, and how far from
\* zero its likeCount gets.
MaxLikes == 3

\* ------------------------------------------------------- program constants
MAX_RETRIES == 5
BASE_DELAY == 1000
MAX_DELAY == 30000

Users == {"u1", "u2"}
NoUser == "none"
Null == 0
Slots == 1 .. MaxSockets
TimerIds == 1 .. MaxTimers
PageSlots == 1 .. MaxPageSockets
PostIds == {"p1"}

VARIABLES
  pool,            \* the users who log in during the run (never changes)
  auth,            \* AuthState: [user, isAuthenticated, isLoading]
  mounted,         \* the hook is mounted
  status,          \* useState<WSStatus>
  wsRef,           \* wsRef.current: a slot or Null
  heartbeatRef,    \* heartbeatRef.current: the slot the interval pings, or Null
  retryRef,        \* retryRef.current: a timer id or Null
  retriesRef,      \* retriesRef.current
  isConnectingRef, \* isConnectingRef.current
  sockets,         \* slot -> the WebSocket object in it
  timers,          \* timer id -> the setTimeout it names
  pendingClose,    \* the slot whose close event is due in the running task
  last,            \* history: the handler that ran last
  quiesced,        \* history: torn down, and no connect() issued since
  uncleanRun,      \* history: unclean closes since the last open (saturating)
  unread,          \* useState(0): the unread count
  io,              \* history: the frame the last handler received, the
                   \* socket it wrote a frame to
  retryRun,        \* history: retries scheduled since the last open (saturating)
  observed,        \* history: a visibilitychange that calls nothing is recorded
                   \* too (never changes)
  page,            \* DashboardPage: [mounted, ws, wsConnection, sockets]
  posts,           \* useState<Post[]>: the posts of the page
  filteredPosts    \* useState<Post[]>: the posts the page has rendered

pageVars == <<page, posts, filteredPosts>>
hookVars == <<status, wsRef, heartbeatRef, retryRef, retriesRef,
              isConnectingRef, sockets, timers>>
vars == <<pool, auth, mounted, status, wsRef, heartbeatRef, retryRef,
          retriesRef, isConnectingRef, sockets, timers, pendingClose, last,
          quiesced, uncleanRun, unread, io, retryRun, observed, page, posts,
          filteredPosts>>

\* ------------------------------------------------------------ the objects
FreeSocket == [readyState |-> "FREE", env |-> [isAuthenticated |-> FALSE, user |-> NoUser], opened |-> FALSE]
FreeTimer == [state |-> "free", env |-> [isAuthenticated |-> FALSE, user |-> NoUser]]

\* The hook's state as one value; delay is the argument of the setTimeout the
\* running handler made (0: none) and wrote the socket it passed one frame to
\* (Null: none), both kept for the history records.
Hook ==
  [status |-> status, wsRef |-> wsRef, heartbeatRef |-> heartbeatRef,
   retryRef |-> retryRef, retriesRef |-> retriesRef,
   isConnectingRef |-> isConnectingRef, sockets |-> sockets, timers |-> timers,
   delay |-> 0, wrote |-> Null]

\* What a render closes over: the identity connect() and onclose read.
Closure(a) == [isAuthenticated |-> a.isAuthenticated, user |-> a.user]

\* A history record: the handler, wasClean of a close event, whether the
\* handler called connect(), the delay of the retry it scheduled (0: none).
\* A dispatch that leaves the identity as it is runs no handler of the hook
\* and leaves no record.
Event(op, wasClean, called, delay) ==
  [op |-> op, wasClean |-> wasClean, called |-> called, delay |-> delay]

\* The frames a socket delivers: the text of evt.data is JSON or not; a JSON
\* text has a type and, a notification, the id in its data.
Ids == {"n1", "n2"}
NoId == "none"
NoType == "none"
Frame(text, type, id) == [text |-> text, type |-> type, id |-> id]
Garbage == Frame("garbage", NoType, NoId)
NoFrame == Frame("none", NoType, NoId)
Frames ==
  {Garbage, Frame("json", "pong", NoId), Frame("json", "unknown", NoId)}
    \cup {Frame("json", "notification", i) : i \in Ids}

\* A history record of what a handler received and wrote.
IO(received, wrote) == [received |-> received, wrote |-> wrote]
Quiet == IO(NoFrame, Null)

Min(a, b) == IF a < b THEN a ELSE b

RECURSIVE Pow(_, _)
Pow(b, e) == IF e = 0 THEN 1 ELSE b * Pow(b, e - 1)

\* setStatus: React drops the update of an unmounted component.
setStatus(s, v) == IF mounted THEN [s EXCEPT !.status = v] ELSE s

\* WebSocket.close(): starts the closing handshake of a connecting or open
\* socket; nothing on one that is closing or closed.
close(s, h) ==
  IF s.sockets[h].readyState \in {"CONNECTING", "OPEN"}
    THEN [s EXCEPT !.sockets[h].readyState = "CLOSING"]
    ELSE s

\* clearTimeout: cancels a pending timer; nothing on one that has fired.
clearTimeout(s, t) ==
  IF s.timers[t].state = "pending" THEN [s EXCEPT !.timers[t] = FreeTimer] ELSE s

\* cleanup that also starts the retry count afresh.
cleanupResetsCounter(s) ==
  LET s1 == [s EXCEPT !.heartbeatRef = Null]
      s2 == IF s1.retryRef # Null
              THEN [clearTimeout(s1, s1.retryRef) EXCEPT !.retryRef = Null]
              ELSE s1
      s3 == IF s2.wsRef # Null
              THEN [close(s2, s2.wsRef) EXCEPT !.wsRef = Null]
              ELSE s2
      s4 == [s3 EXCEPT !.isConnectingRef = FALSE, !.retriesRef = 0]
  IN setStatus(s4, "disconnected")

cleanup(s) ==
  LET s1 == [s EXCEPT !.heartbeatRef = Null]
      s2 == IF s1.retryRef # Null
              THEN [clearTimeout(s1, s1.retryRef) EXCEPT !.retryRef = Null]
              ELSE s1
      s3 == IF s2.wsRef # Null
              THEN [close(s2, s2.wsRef) EXCEPT !.wsRef = Null]
              ELSE s2
      s4 == [s3 EXCEPT !.isConnectingRef = FALSE]
  IN setStatus(s4, "disconnected")

\* send that does not look at readyState.
sendWhateverState(s) ==
  IF s.wsRef # Null THEN [s EXCEPT !.wrote = s.wsRef] ELSE s

\* send that takes a connecting socket for an open one.
sendWhileConnecting(s) ==
  IF s.wsRef # Null /\ s.sockets[s.wsRef].readyState \in {"CONNECTING", "OPEN"}
    THEN [s EXCEPT !.wrote = s.wsRef]
    ELSE s

\* send(payload), for a payload JSON.stringify accepts: one frame to the
\* socket the hook holds when it is open, a warning otherwise.
send(s) ==
  IF s.wsRef # Null /\ s.sockets[s.wsRef].readyState = "OPEN"
    THEN [s EXCEPT !.wrote = s.wsRef]
    ELSE s

startHeartbeat(s, h) == [s EXCEPT !.heartbeatRef = h]

\* The callback of the interval startHeartbeat(ws) armed: a ping to ws when
\* it is open.
heartbeat(s, h) ==
  IF s.sockets[h].readyState = "OPEN" THEN [s EXCEPT !.wrote = h] ELSE s

\* Slots a new socket may take: empty, or holding a closed socket that the
\* hook no longer references.
FreeSlots(s) ==
  {h \in Slots : /\ s.sockets[h].readyState \in {"FREE", "CLOSED"}
                 /\ s.wsRef # h /\ s.heartbeatRef # h}
FirstFree(s) == {h \in FreeSlots(s) : \A g \in FreeSlots(s) : h <= g}

FreeTimers(s) == {t \in TimerIds : s.timers[t].state # "pending"}
FirstFreeTimer(s) == {t \in FreeTimers(s) : \A u \in FreeTimers(s) : t <= u}

NewSocket(env) == [readyState |-> "CONNECTING", env |-> env, opened |-> FALSE]

\* connect() without its first guard.
connectWithoutIdentityGuard(s, env) ==
  IF s.isConnectingRef THEN {s}
  ELSE IF s.wsRef # Null /\ s.sockets[s.wsRef].readyState = "OPEN" THEN {s}
  ELSE
    LET s1 == IF s.wsRef # Null THEN cleanup(s) ELSE s
        s2 == [setStatus(s1, "connecting") EXCEPT !.isConnectingRef = TRUE]
        thrown == [setStatus(s2, "error") EXCEPT !.isConnectingRef = FALSE]
    IN IF FirstFree(s2) = {} THEN {}
       ELSE {thrown} \cup
            {[s2 EXCEPT !.sockets[h] = NewSocket(env), !.wsRef = h] : h \in FirstFree(s2)}

\* connect() that starts the retry count afresh.
connectResetsCounter(s, env) ==
  IF ~env.isAuthenticated \/ env.user = NoUser THEN {s}
  ELSE IF s.isConnectingRef THEN {s}
  ELSE IF s.wsRef # Null /\ s.sockets[s.wsRef].readyState = "OPEN" THEN {s}
  ELSE
    LET s1 == IF s.wsRef # Null THEN cleanup(s) ELSE s
        s2 == [setStatus(s1, "connecting") EXCEPT !.isConnectingRef = TRUE,
                                                  !.retriesRef = 0]
        thrown == [setStatus(s2, "error") EXCEPT !.isConnectingRef = FALSE]
    IN IF FirstFree(s2) = {} THEN {}
       ELSE {thrown} \cup
            {[s2 EXCEPT !.sockets[h] = NewSocket(env), !.wsRef = h] : h \in FirstFree(s2)}

\* connect() of the render that closed over env.  The states it can end in:
\* the constructor returns a socket or throws; none when every slot is taken.
connect(s, env) ==
  IF ~env.isAuthenticated \/ env.user = NoUser THEN {s}
  ELSE IF s.isConnectingRef THEN {s}
  ELSE IF s.wsRef # Null /\ s.sockets[s.wsRef].readyState = "OPEN" THEN {s}
  ELSE
    LET s1 == IF s.wsRef # Null THEN cleanup(s) ELSE s
        s2 == [setStatus(s1, "connecting") EXCEPT !.isConnectingRef = TRUE]
        thrown == [setStatus(s2, "error") EXCEPT !.isConnectingRef = FALSE]
    IN IF FirstFree(s2) = {} THEN {}
       ELSE {thrown} \cup
            {[s2 EXCEPT !.sockets[h] = NewSocket(env), !.wsRef = h] : h \in FirstFree(s2)}

\* onopen that forgets to reset the retry counter.
onopenKeepsCounter(s, h) ==
  LET s1 == [setStatus(s, "connected") EXCEPT !.isConnectingRef = FALSE]
  IN startHeartbeat(s1, h)

onopen(s, h) ==
  LET s1 == [setStatus(s, "connected") EXCEPT !.isConnectingRef = FALSE,
                                              !.retriesRef = 0]
  IN startHeartbeat(s1, h)

\* shouldRetry with the ceiling off by one.
shouldRetryOffByOne(s, env, wasClean) ==
  /\ ~wasClean
  /\ s.retriesRef <= MAX_RETRIES
  /\ env.isAuthenticated
  /\ env.user # NoUser

\* shouldRetry that does not look at wasClean.
shouldRetryAnyClose(s, env, wasClean) ==
  /\ s.retriesRef < MAX_RETRIES
  /\ env.isAuthenticated
  /\ env.user # NoUser

\* The guard of the reconnect branch of onclose; env is what the closure of
\* the socket's connect() captured.
shouldRetry(s, env, wasClean) ==
  /\ ~wasClean
  /\ s.retriesRef < MAX_RETRIES
  /\ env.isAuthenticated
  /\ env.user # NoUser

\* backoffDelay with the exponent off by one.
backoffDelayFromZero(retries) == Min(BASE_DELAY * Pow(2, retries), MAX_DELAY)

\* The delay of the retry, from the counter already incremented.
backoffDelay(retries) == Min(BASE_DELAY * Pow(2, retries - 1), MAX_DELAY)

\* onclose that leaves isConnectingRef as it is.
oncloseKeepsFlag(s, h, wasClean) ==
  LET env == s.sockets[h].env
      s1 == [s EXCEPT !.heartbeatRef = Null]
  IN IF shouldRetry(s1, env, wasClean)
       THEN LET s2 == [s1 EXCEPT !.retriesRef = s1.retriesRef + 1]
                delay == backoffDelay(s2.retriesRef)
                s3 == setStatus(s2, "connecting")
            IN {[s3 EXCEPT !.timers[t] = [state |-> "pending", env |-> env],
                           !.retryRef = t,
                           !.delay = delay] : t \in FirstFreeTimer(s3)}
       ELSE {[setStatus(s1, IF wasClean THEN "disconnected" ELSE "error")
                EXCEPT !.wsRef = Null]}

\* onclose of the socket in slot h.  None when every timer id is taken.
onclose(s, h, wasClean) ==
  LET env == s.sockets[h].env
      s1 == [s EXCEPT !.isConnectingRef = FALSE, !.heartbeatRef = Null]
  IN IF shouldRetry(s1, env, wasClean)
       THEN LET s2 == [s1 EXCEPT !.retriesRef = s1.retriesRef + 1]
                delay == backoffDelay(s2.retriesRef)
                s3 == setStatus(s2, "connecting")
            IN {[s3 EXCEPT !.timers[t] = [state |-> "pending", env |-> env],
                           !.retryRef = t,
                           !.delay = delay] : t \in FirstFreeTimer(s3)}
       ELSE {[setStatus(s1, IF wasClean THEN "disconnected" ELSE "error")
                EXCEPT !.wsRef = Null]}

onerror(s, h) == [setStatus(s, "error") EXCEPT !.isConnectingRef = FALSE]

\* setUnread: React drops the update of an unmounted component.
setUnread(u, v) == IF mounted THEN v ELSE u

\* JSON.parse of evt.data: the message, or the SyntaxError it throws.
parse(frame) ==
  IF frame.text = "json"
    THEN [threw |-> FALSE, type |-> frame.type, id |-> frame.id]
    ELSE [threw |-> TRUE, type |-> NoType, id |-> NoId]

\* onmessage that counts every frame it can parse.
onmessageCountsEveryType(u, frame) ==
  LET msg == parse(frame)
  IN IF msg.threw THEN u ELSE setUnread(u, u + 1)

\* onmessage that counts a notification by two.
onmessageCountsTwice(u, frame) ==
  LET msg == parse(frame)
  IN IF msg.threw THEN u
     ELSE IF msg.type = "notification" THEN setUnread(u, u + 2)
     ELSE u

\* onmessage of any socket, on the unread count u: the hook's refs and status
\* are not in its reach.  The desktop Notification it raises (tagged with the
\* id) is no state of the hook.
onmessage(u, frame) ==
  LET msg == parse(frame)
  IN IF msg.threw THEN u
     ELSE IF msg.type = "notification" THEN setUnread(u, u + 1)
     ELSE IF msg.type = "pong" THEN u
     ELSE u

resetUnread(u) == setUnread(u, 0)

\* ----------------------------------------------------------- the auth store
initialState == [user |-> NoUser, isAuthenticated |-> FALSE, isLoading |-> FALSE]

authReducer(state, action) ==
  CASE action.type = "LOGIN_START" -> [state EXCEPT !.isLoading = TRUE]
    [] action.type = "LOGIN_SUCCESS" ->
         [state EXCEPT !.user = action.payload, !.isAuthenticated = TRUE,
                       !.isLoading = FALSE]
    [] action.type = "LOGIN_ERROR" ->
         [state EXCEPT !.user = NoUser, !.isAuthenticated = FALSE,
                       !.isLoading = FALSE]
    [] action.type = "LOGOUT" ->
         [state EXCEPT !.user = NoUser, !.isAuthenticated = FALSE,
                       !.isLoading = FALSE]
    [] action.type = "UPDATE_USER" -> [state EXCEPT !.user = action.payload]
    [] OTHER -> state

\* The dependency list of the connection effect: [isAuthenticated, user?.userId].
effectDeps(a) == <<a.isAuthenticated, a.user>>

\* The connection effect re-run for identity a: the cleanup the previous run
\* returned, then the body.
connectionEffect(s, a) ==
  LET s1 == cleanup(s)
  IN IF a.isAuthenticated /\ a.user # NoUser
       THEN connect(s1, Closure(a))
       ELSE {cleanup(s1)}

\* WouldReconnect that does not look at document.hidden.
WouldReconnectHiddenToo(s, isHidden, a) ==
  /\ a.isAuthenticated /\ a.user # NoUser
  /\ (s.wsRef = Null \/ s.sockets[s.wsRef].readyState # "OPEN")

\* handleVisibilityChange, with document.hidden already updated.
WouldReconnect(s, isHidden, a) ==
  /\ ~isHidden /\ a.isAuthenticated /\ a.user # NoUser
  /\ (s.wsRef = Null \/ s.sockets[s.wsRef].readyState # "OPEN")

handleVisibilityChange(s, isHidden, a) ==
  IF WouldReconnect(s, isHidden, a) THEN connect(s, Closure(a)) ELSE {s}

\* ------------------------------------------------------- the dashboard page
\* A socket of the page: its readyState and the userId in its URL.
FreePageSocket == [readyState |-> "FREE", user |-> NoUser]

\* The page not mounted.  ws is the socket the cleanup of the WebSocket effect
\* closes over (Null: the effect returned no cleanup).
NoPage ==
  [mounted |-> FALSE, ws |-> Null, wsConnection |-> Null,
   sockets |-> [h \in PageSlots |-> FreePageSocket]]

\* setWsConnection: React drops the update of an unmounted component.
setWsConnection(p, v) == IF p.mounted THEN [p EXCEPT !.wsConnection = v] ELSE p

\* A closed socket that no cleanup references is gone.
collect(p) ==
  [p EXCEPT !.sockets = [h \in PageSlots |->
     IF p.sockets[h].readyState = "CLOSED" /\ p.ws # h
       THEN FreePageSocket ELSE p.sockets[h]]]

\* The cleanup of the WebSocket effect: closes its socket only when open.
pageCleanup(p) ==
  IF p.ws # Null /\ p.sockets[p.ws].readyState = "OPEN"
    THEN [p EXCEPT !.sockets[p.ws].readyState = "CLOSING", !.ws = Null]
    ELSE [p EXCEPT !.ws = Null]

FreePageSlots(p) == {h \in PageSlots : p.sockets[h].readyState = "FREE"}
FirstFreePage(p) == {h \in FreePageSlots(p) : \A g \in FreePageSlots(p) : h <= g}

\* The WebSocket effect of the page for identity a: the cleanup of the
\* previous run, then the body.  None when every slot is taken.
pageEffect(p, a) ==
  LET p1 == collect(pageCleanup(p))
  IN IF ~a.isAuthenticated \/ a.user = NoUser
       THEN {p1}
       ELSE {[p1 EXCEPT !.sockets[h] = [readyState |-> "CONNECTING", user |-> a.user],
                        !.ws = h] : h \in FirstFreePage(p1)}

\* The dependency list of that effect holds the user object: a login or an
\* update stores the object it was given, a new one each time.
pageDepsChanged(old, a, action) ==
  \/ a.isAuthenticated # old.isAuthenticated
  \/ a.user # old.user
  \/ action.type \in {"LOGIN_SUCCESS", "UPDATE_USER"}

\* The page after a dispatch.
pageAfterDispatch(p, old, a, action) ==
  IF p.mounted /\ pageDepsChanged(old, a, action) THEN pageEffect(p, a) ELSE {p}

\* The page unmounted: the cleanup runs and the state is dropped.
pageUnmount(p) ==
  IF p.mounted
    THEN [collect(pageCleanup(p)) EXCEPT !.mounted = FALSE, !.wsConnection = Null]
    ELSE p

\* A post: its id, the ids of the users who like it, and the count shown.
Post(id, likes, likeCount) == [postId |-> id, likes |-> likes, likeCount |-> likeCount]

includes(likes, u) == \E i \in DOMAIN likes : likes[i] = u

without(likes, u) == SelectSeq(likes, LAMBDA id : id # u)

\* The updater handleLikePost passes to setPosts, for the post the click was
\* rendered from.
handleLikePost(prevPosts, post, user) ==
  LET isLiked == includes(post.likes, user)
  IN [i \in DOMAIN prevPosts |->
        IF prevPosts[i].postId = post.postId
          THEN [prevPosts[i] EXCEPT
                  !.likes = IF isLiked THEN without(@, user) ELSE Append(@, user),
                  !.likeCount = IF isLiked THEN @ - 1 ELSE @ + 1]
          ELSE prevPosts[i]]

\* What the posts API answers: no post, or the post with each liker once and
\* the count of its likers.
ServerLikes ==
  {<<>>} \cup {<<u>> : u \in Users}
    \cup {<<u, v>> : <<u, v>> \in {w \in Users \X Users : w[1] # w[2]}}
ServerPosts ==
  {<<>>} \cup {<<Post(id, likes, Len(likes))>> : id \in PostIds, likes \in ServerLikes}

\* ------------------------------------------------------- garbage and commit
\* A closed socket that neither the hook nor a pending event references, and
\* a fired timer whose id the hook no longer holds, are gone.
Normalize(s, keep) ==
  [s EXCEPT
     !.sockets = [h \in Slots |->
        IF /\ s.sockets[h].readyState = "CLOSED"
           /\ s.wsRef # h /\ s.heartbeatRef # h /\ keep # h
          THEN FreeSocket ELSE s.sockets[h]],
     !.timers = [t \in TimerIds |->
        IF s.timers[t].state = "fired" /\ s.retryRef # t
          THEN FreeTimer ELSE s.timers[t]]]

Commit(t, keep) ==
  LET n == Normalize(t, keep)
  IN /\ status' = n.status
     /\ wsRef' = n.wsRef
     /\ heartbeatRef' = n.heartbeatRef
     /\ retryRef' = n.retryRef
     /\ retriesRef' = n.retriesRef
     /\ isConnectingRef' = n.isConnectingRef
     /\ sockets' = n.sockets
     /\ timers' = n.timers

RunCap == MAX_RETRIES + 1

\* ------------------------------------------------------------------- Init
\* The hook mounted under the initial auth state: the connection effect has
\* run its else branch, cleanup(), on nothing.
InitWith(users, obs) ==
  /\ pool = users
  /\ observed = obs
  /\ auth = initialState
  /\ mounted = TRUE
  /\ status = "disconnected"
  /\ wsRef = Null
  /\ heartbeatRef = Null
  /\ retryRef = Null
  /\ retriesRef = 0
  /\ isConnectingRef = FALSE
  /\ sockets = [h \in Slots |-> FreeSocket]
  /\ timers = [t \in TimerIds |-> FreeTimer]
  /\ pendingClose = Null
  /\ last = Event("mount", FALSE, FALSE, 0)
  /\ quiesced = TRUE
  /\ uncleanRun = 0
  /\ unread = 0
  /\ io = Quiet
  /\ retryRun = 0
  /\ page = NoPage
  /\ posts = <<>>
  /\ filteredPosts = <<>>

\* ---------------------------------------------------------------- actions
\* Dispatch whose connection effect also empties the unread count.
DispatchResetsUnread(action) ==
  LET a == authReducer(auth, action)
      ran == effectDeps(a) # effectDeps(auth)
  IN /\ mounted /\ pendingClose = Null
     /\ auth' = a
     /\ IF ran
          THEN \E t \in connectionEffect(Hook, a) : Commit(t, Null)
          ELSE UNCHANGED hookVars
     /\ quiesced' = IF ran THEN ~(a.isAuthenticated /\ a.user # NoUser) ELSE quiesced
     /\ last' = IF ran THEN Event(action.type, FALSE, ~quiesced', 0) ELSE last
     /\ io' = IF ran THEN Quiet ELSE io
     /\ unread' = IF ran THEN 0 ELSE unread
     /\ page' \in pageAfterDispatch(page, auth, a, action)
     /\ UNCHANGED <<posts, filteredPosts, pool, mounted, pendingClose, uncleanRun,
                    retryRun, observed>>

\* A dispatch to the auth store and, when the identity changed, the
\* connection effect of the render that follows.
Dispatch(action) ==
  LET a == authReducer(auth, action)
      ran == effectDeps(a) # effectDeps(auth)
  IN /\ mounted /\ pendingClose = Null
     /\ auth' = a
     /\ IF ran
          THEN \E t \in connectionEffect(Hook, a) : Commit(t, Null)
          ELSE UNCHANGED hookVars
     /\ quiesced' = IF ran THEN ~(a.isAuthenticated /\ a.user # NoUser) ELSE quiesced
     /\ last' = IF ran THEN Event(action.type, FALSE, ~quiesced', 0) ELSE last
     /\ io' = IF ran THEN Quiet ELSE io
     /\ page' \in pageAfterDispatch(page, auth, a, action)
     /\ UNCHANGED <<posts, filteredPosts, pool, mounted, pendingClose, uncleanRun,
                    unread, retryRun, observed>>

\* login() and logout() of the provider.  updateUser() has no caller in the
\* application, and nothing dispatches LOGIN_START or LOGIN_ERROR.
Login == \E u \in pool : Dispatch([type |-> "LOGIN_SUCCESS", payload |-> u])

Logout == Dispatch([type |-> "LOGOUT", payload |-> NoUser])

\* A visibilitychange event; isHidden is document.hidden as the handler reads
\* it.  The handler keeps nothing of it, so the page's visibility is no state.
\* An event that calls connect() leaves a record, and so does every event
\* when observed.
VisibilityChange ==
  \E isHidden \in BOOLEAN :
    LET called == WouldReconnect(Hook, isHidden, auth)
        recorded == called \/ observed
    IN /\ mounted /\ pendingClose = Null
       /\ \E t \in handleVisibilityChange(Hook, isHidden, auth) : Commit(t, Null)
       /\ quiesced' = IF called THEN FALSE ELSE quiesced
       /\ last' = IF recorded
                    THEN Event(IF isHidden THEN "hidden" ELSE "visible", FALSE, called, 0)
                    ELSE last
       /\ io' = IF recorded THEN Quiet ELSE io
       /\ UNCHANGED <<pageVars, pool, auth, mounted, pendingClose, uncleanRun, unread, retryRun,
                      observed>>

\* The provider unmounts, and the page under it: the effects' cleanups run,
\* the listeners go.
Unmount ==
  /\ mounted /\ pendingClose = Null
  /\ Commit(cleanup(Hook), Null)
  /\ mounted' = FALSE
  /\ quiesced' = TRUE
  /\ last' = Event("unmount", FALSE, FALSE, 0)
  /\ io' = Quiet
  /\ page' = pageUnmount(page)
  /\ posts' = <<>>
  /\ filteredPosts' = <<>>
  /\ UNCHANGED <<pool, auth, pendingClose, uncleanRun, unread, retryRun, observed>>

\* The connection of a connecting socket is established.
OnOpen ==
  \E h \in Slots :
    /\ pendingClose = Null
    /\ sockets[h].readyState = "CONNECTING"
    /\ LET s0 == [Hook EXCEPT !.sockets[h].readyState = "OPEN",
                              !.sockets[h].opened = TRUE]
       IN Commit(onopen(s0, h), Null)
    /\ uncleanRun' = 0
    /\ retryRun' = 0
    /\ last' = Event("open", FALSE, FALSE, 0)
    /\ io' = Quiet
    /\ UNCHANGED <<pageVars, pool, auth, mounted, pendingClose, quiesced, unread, observed>>

\* The connection of a socket failed: the error event; its close event
\* follows in the same task.
OnError ==
  \E h \in Slots :
    /\ pendingClose = Null
    /\ sockets[h].readyState \in {"CONNECTING", "OPEN", "CLOSING"}
    /\ LET s0 == [Hook EXCEPT !.sockets[h].readyState = "CLOSED"]
       IN Commit(onerror(s0, h), h)
    /\ pendingClose' = h
    /\ last' = Event("error", FALSE, FALSE, 0)
    /\ io' = Quiet
    /\ UNCHANGED <<pageVars, pool, auth, mounted, quiesced, uncleanRun, unread, retryRun,
                   observed>>

\* The close event of a socket.  Clean only when the connection had been
\* established and did not fail: closing a socket that is still connecting
\* fails its connection.
OnClose ==
  \E h \in Slots, wasClean \in BOOLEAN :
    /\ \/ pendingClose = h /\ ~wasClean
       \/ /\ pendingClose = Null
          /\ sockets[h].readyState \in {"CONNECTING", "OPEN", "CLOSING"}
          /\ wasClean => sockets[h].opened
    /\ LET s0 == [Hook EXCEPT !.sockets[h].readyState = "CLOSED"]
       IN \E t \in onclose(s0, h, wasClean) :
            /\ Commit(t, Null)
            /\ last' = Event("close", wasClean, FALSE, t.delay)
            /\ retryRun' = IF t.timers # s0.timers
                             THEN Min(retryRun + 1, RunCap) ELSE retryRun
    /\ pendingClose' = Null
    /\ uncleanRun' = IF wasClean THEN uncleanRun ELSE Min(uncleanRun + 1, RunCap)
    /\ io' = Quiet
    /\ UNCHANGED <<pageVars, pool, auth, mounted, quiesced, unread, observed>>

\* A tick of the heartbeat interval: a ping when its socket is open.
HeartbeatTick ==
  /\ pendingClose = Null
  /\ heartbeatRef # Null
  /\ LET t == heartbeat(Hook, heartbeatRef)
     IN Commit(t, Null) /\ io' = IO(NoFrame, t.wrote)
  /\ last' = Event("heartbeat", FALSE, FALSE, 0)
  /\ UNCHANGED <<pageVars, pool, auth, mounted, pendingClose, quiesced, uncleanRun, unread,
                 retryRun, observed>>

\* A retry timer fires: the connect() its onclose closed over.
RetryFire ==
  \E t \in TimerIds :
    /\ pendingClose = Null
    /\ timers[t].state = "pending"
    /\ LET s0 == [Hook EXCEPT !.timers[t].state = "fired"]
       IN \E r \in connect(s0, timers[t].env) : Commit(r, Null)
    /\ last' = Event("retry", FALSE, TRUE, 0)
    /\ io' = Quiet
    /\ UNCHANGED <<pageVars, pool, auth, mounted, pendingClose, quiesced, uncleanRun, unread,
                   retryRun, observed>>

Next ==
  \/ Login
  \/ Logout
  \/ VisibilityChange
  \/ Unmount
  \/ OnOpen
  \/ OnError
  \/ OnClose
  \/ HeartbeatTick
  \/ RetryFire

\* A frame arrives on an open socket: the user agent delivers a message only
\* while readyState is OPEN.
OnMessage ==
  \E h \in Slots, frame \in Frames :
    /\ pendingClose = Null
    /\ sockets[h].readyState = "OPEN"
    /\ unread' = onmessage(unread, frame)
    /\ unread' <= MaxUnread
    /\ io' = IO(frame, Null)
    /\ last' = Event("message", FALSE, FALSE, 0)
    /\ UNCHANGED <<pageVars, pool, auth, mounted, hookVars, pendingClose, quiesced,
                   uncleanRun, retryRun, observed>>

\* A consumer of the context calls resetUnread().
ResetUnread ==
  /\ mounted /\ pendingClose = Null
  /\ unread' = resetUnread(unread)
  /\ io' = Quiet
  /\ last' = Event("resetUnread", FALSE, FALSE, 0)
  /\ UNCHANGED <<pageVars, pool, auth, mounted, hookVars, pendingClose, quiesced,
                 uncleanRun, retryRun, observed>>

\* A consumer of the context calls send(payload).
Send ==
  /\ mounted /\ pendingClose = Null
  /\ LET t == send(Hook)
     IN Commit(t, Null) /\ io' = IO(NoFrame, t.wrote)
  /\ last' = Event("send", FALSE, FALSE, 0)
  /\ UNCHANGED <<pageVars, pool, auth, mounted, pendingClose, quiesced, uncleanRun, unread,
                 retryRun, observed>>

\* connect() of the current render called on its own, whatever the identity.
CallConnect ==
  LET env == Closure(auth)
      called == env.isAuthenticated /\ env.user # NoUser
  IN /\ mounted /\ pendingClose = Null
     /\ \E t \in connect(Hook, env) : Commit(t, Null)
     /\ quiesced' = IF called THEN FALSE ELSE quiesced
     /\ last' = Event("connect", FALSE, TRUE, 0)
     /\ io' = Quiet
     /\ UNCHANGED <<pageVars, pool, auth, mounted, pendingClose, uncleanRun, unread, retryRun,
                   observed>>

\* The session and the transport with the traffic of the channel: frames in,
\* send() and resetUnread().  The three touch nothing the actions of Next
\* read, so Next alone is the model of the connection.
NextMessages ==
  \/ Next
  \/ OnMessage
  \/ ResetUnread
  \/ Send

\* The session and the transport with connect() as an operation of its own.
NextConnect ==
  \/ Next
  \/ CallConnect

\* One user logs in and out.  The hook never compares user ids, so a second
\* user changes only the ids its sockets and timers carry.
Init == InitWith({"u1"}, FALSE)

Spec == Init /\ [][Next]_vars

\* The browser's event loop delivers the events of a socket: one that is
\* connecting opens or fails, one that is closing closes.
SpecFair == Spec /\ WF_vars(OnOpen \/ OnError \/ OnClose)

\* Two users, for what depends on whose socket a socket is.
InitTwoUsers == InitWith(Users, FALSE)

SpecTwoUsers == InitTwoUsers /\ [][Next]_vars

SpecMessages == Init /\ [][NextMessages]_vars

SpecConnect == Init /\ [][NextConnect]_vars

\* The three actions of the reducer that the application never dispatches;
\* updateUser() is on the context for any consumer to call.
LoginStart == Dispatch([type |-> "LOGIN_START", payload |-> NoUser])

LoginError == Dispatch([type |-> "LOGIN_ERROR", payload |-> NoUser])

UpdateUser == \E u \in pool : Dispatch([type |-> "UPDATE_USER", payload |-> u])

\* Every action the reducer knows.
NextAuth == Next \/ LoginStart \/ LoginError \/ UpdateUser

SpecAuth == Init /\ [][NextAuth]_vars

\* The router shows the dashboard page: its WebSocket effect runs, and its
\* state starts empty.
PageMount ==
  /\ mounted /\ pendingClose = Null
  /\ ~page.mounted
  /\ page' \in pageEffect([page EXCEPT !.mounted = TRUE], auth)
  /\ posts' = <<>>
  /\ filteredPosts' = <<>>
  /\ UNCHANGED <<hookVars, pool, auth, mounted, pendingClose, last, quiesced,
                 uncleanRun, unread, io, retryRun, observed>>

\* The router leaves the dashboard page.
PageUnmount ==
  /\ pendingClose = Null
  /\ page.mounted
  /\ page' = pageUnmount(page)
  /\ posts' = <<>>
  /\ filteredPosts' = <<>>
  /\ UNCHANGED <<hookVars, pool, auth, mounted, pendingClose, last, quiesced,
                 uncleanRun, unread, io, retryRun, observed>>

\* The connection of a connecting socket of the page is established.
PageOpen ==
  \E h \in PageSlots :
    /\ pendingClose = Null
    /\ page.sockets[h].readyState = "CONNECTING"
    /\ page' = setWsConnection([page EXCEPT !.sockets[h].readyState = "OPEN"], h)
    /\ UNCHANGED <<hookVars, posts, filteredPosts, pool, auth, mounted,
                   pendingClose, last, quiesced, uncleanRun, unread, io,
                   retryRun, observed>>

\* The close event of a socket of the page, after its error event or not:
\* onerror only logs, and so does the timer onclose sets.
PageClose ==
  \E h \in PageSlots :
    /\ pendingClose = Null
    /\ page.sockets[h].readyState \in {"CONNECTING", "OPEN", "CLOSING"}
    /\ page' = collect(setWsConnection(
                  [page EXCEPT !.sockets[h].readyState = "CLOSED"], Null))
    /\ UNCHANGED <<hookVars, posts, filteredPosts, pool, auth, mounted,
                   pendingClose, last, quiesced, uncleanRun, unread, io,
                   retryRun, observed>>

\* The session, the transport and the page with its own socket.
NextDashboard ==
  \/ Login
  \/ Logout
  \/ Unmount
  \/ OnOpen
  \/ OnError
  \/ OnClose
  \/ PageMount
  \/ PageUnmount
  \/ PageOpen
  \/ PageClose

SpecDashboard == Init /\ [][NextDashboard]_vars

\* fetchPosts() has its answer: the mount effect, a frame on the page's
\* socket, the refresh button or a like called it.
FetchPosts ==
  \E answer \in ServerPosts :
    /\ pendingClose = Null
    /\ page.mounted
    /\ posts' = answer
    /\ UNCHANGED <<hookVars, page, filteredPosts, pool, auth, mounted,
                   pendingClose, last, quiesced, uncleanRun, unread, io,
                   retryRun, observed>>

\* The render after posts changed, with the effect that calls applyFilter()
\* (the filter is 'all').
ApplyFilter ==
  /\ pendingClose = Null
  /\ page.mounted
  /\ auth.user # NoUser
  /\ filteredPosts' = posts
  /\ UNCHANGED <<hookVars, page, posts, pool, auth, mounted, pendingClose, last,
                 quiesced, uncleanRun, unread, io, retryRun, observed>>

\* A click on the like button of a rendered post (a post of another author:
\* the button of one's own post is disabled).
LikeClick ==
  \E i \in DOMAIN filteredPosts :
    /\ pendingClose = Null
    /\ page.mounted
    /\ auth.user # NoUser
    /\ posts' = handleLikePost(posts, filteredPosts[i], auth.user)
    /\ \A j \in DOMAIN posts' :
         /\ Len(posts'[j].likes) <= MaxLikes
         /\ posts'[j].likeCount \in -MaxLikes .. MaxLikes
    /\ UNCHANGED <<hookVars, page, filteredPosts, pool, auth, mounted,
                   pendingClose, last, quiesced, uncleanRun, unread, io,
                   retryRun, observed>>

\* The session and the page with its posts.
NextLikes ==
  \/ Login
  \/ Logout
  \/ PageMount
  \/ PageUnmount
  \/ FetchPosts
  \/ ApplyFilter
  \/ LikeClick

SpecLikes == Init /\ [][NextLikes]_vars

\* Two users, the session, the transport without its retry timers firing, and
\* what writes the unread count.
NextUnread ==
  \/ Login
  \/ Logout
  \/ Unmount
  \/ OnOpen
  \/ OnError
  \/ OnClose
  \/ OnMessage
  \/ ResetUnread

SpecUnread == InitTwoUsers /\ [][NextUnread]_vars

\* Every visibilitychange on record.
InitObserved == InitWith({"u1"}, TRUE)

SpecObserved == InitObserved /\ [][Next]_vars

TypeOK ==
  /\ pool \subseteq Users
  /\ auth.user \in pool \cup {NoUser}
  /\ status \in {"connecting", "connected", "disconnected", "error"}
  /\ wsRef \in Slots \cup {Null}
  /\ heartbeatRef \in Slots \cup {Null}
  /\ retryRef \in TimerIds \cup {Null}
  /\ retriesRef \in Nat
  /\ isConnectingRef \in BOOLEAN
  /\ \A h \in Slots : sockets[h].readyState \in
       {"FREE", "CONNECTING", "OPEN", "CLOSING", "CLOSED"}
  /\ \A t \in TimerIds : timers[t].state \in {"free", "pending", "fired"}
  /\ unread \in 0 .. MaxUnread
  /\ io.received \in Frames \cup {NoFrame}
  /\ io.wrote \in Slots \cup {Null}
  /\ retryRun \in 0 .. RunCap
  /\ observed \in BOOLEAN
  /\ page.mounted \in BOOLEAN
  /\ page.ws \in PageSlots \cup {Null}
  /\ page.wsConnection \in PageSlots \cup {Null}
  /\ \A h \in PageSlots : page.sockets[h].readyState \in
       {"FREE", "CONNECTING", "OPEN", "CLOSING", "CLOSED"}
  /\ Len(posts) <= Cardinality(PostIds)
  /\ Len(filteredPosts) <= Cardinality(PostIds)

\* ------------------------------------------------------------- the claims
OpenSlots == {h \in Slots : sockets[h].readyState = "OPEN"}
PendingTimers == {t \in TimerIds : timers[t].state = "pending"}
ManagerHandleOpen == wsRef # Null /\ sockets[wsRef].readyState = "OPEN"
ManagerHandleConnecting == wsRef # Null /\ sockets[wsRef].readyState = "CONNECTING"

\* C1: at most one channel handle created by the manager is open at any
\* instant, in every interleaving of connect(), teardown and socket callbacks.
C1_AtMostOneOpen == Cardinality(OpenSlots) <= 1

\* C2: once teardown has run (logout, unmount), no handle is created and no
\* handle opens until an authenticated identity or a visibility event issues
\* a new connect().
C2_NoResurrection ==
  [][(quiesced /\ quiesced') =>
       \A h \in Slots :
         /\ sockets'[h].readyState = "CONNECTING" => sockets[h].readyState = "CONNECTING"
         /\ sockets'[h].readyState = "OPEN" => sockets[h].readyState = "OPEN"]_vars

\* C3: after teardown no heartbeat tick and no retry timer fires, until a new
\* connect() is issued.
C3_NoTimerAfterTeardown == ~(quiesced /\ last.op \in {"heartbeat", "retry"})

\* C4 as stated: right after the 5th consecutive unclean close with no open in
\* between, status is error and no retry is scheduled.
C4_FiveClosesExhaust ==
  (last.op = "close" /\ ~last.wasClean /\ uncleanRun = 5) =>
    (status = "error" /\ last.delay = 0 /\ PendingTimers = {})

\* C4 amended: right after the 6th (or a later) consecutive unclean close with
\* no open in between, the status of the mounted hook is error and that close
\* scheduled no retry.
C4_SixClosesExhaust ==
  (last.op = "close" /\ ~last.wasClean /\ uncleanRun >= 6 /\ mounted) =>
    (status = "error" /\ last.delay = 0)

C4_Witness ==
  last.op = "close" /\ ~last.wasClean /\ uncleanRun >= 6 /\ mounted /\ status = "error"

\* C5: the retry scheduled by the n-th consecutive unclean close since the
\* last open has delay min(1000 * 2^(n-1), 30000): 1000, 2000 (so 3000 after
\* the first close), ..., 16000 for the fifth.
C5_BackoffDelay ==
  (last.op = "close" /\ last.delay # 0) =>
    /\ ~last.wasClean
    /\ last.delay = Min(1000 * Pow(2, uncleanRun - 1), 30000)
    /\ uncleanRun = 1 => last.delay = 1000
    /\ uncleanRun = 2 => last.delay = 2000 /\ 1000 + last.delay = 3000
    /\ uncleanRun = 5 => last.delay = 16000

C5_Witness == last.op = "close" /\ uncleanRun = 5 /\ last.delay = 16000

\* C6: a connect() issued (by the visibility handler or a retry timer) while
\* the manager's handle is connecting or open creates no handle and changes
\* nothing of the hook's state.
C6_ConnectIdempotent ==
  [][(/\ last'.op \in {"visible", "retry"} /\ last'.called
      /\ (ManagerHandleConnecting \/ ManagerHandleOpen)) =>
       /\ UNCHANGED <<status, wsRef, heartbeatRef, retryRef, retriesRef, isConnectingRef>>
       /\ \A h \in Slots : sockets'[h] = sockets[h]]_vars

\* C7: between tasks, status is connected exactly when the handle the manager
\* holds is open.
C7_StatusAgrees ==
  pendingClose = Null => ((status = "connected") <=> ManagerHandleOpen)

\* C8: between tasks, status is error only when the retry ceiling is
\* exhausted: no transport failure makes it error while retries remain.
C8_ErrorOnlyAfterExhaustion ==
  (pendingClose = Null /\ status = "error") => retriesRef >= 5

\* C9: a close delivered with wasClean = true does not change the retry
\* counter, schedules no retry and leaves status disconnected.
C9_CleanCloseNoRetry ==
  [][(last'.op = "close" /\ last'.wasClean) =>
       /\ retriesRef' = retriesRef
       /\ last'.delay = 0
       /\ \A t \in TimerIds : timers'[t].state = "pending" => timers[t].state = "pending"
       /\ status' = "disconnected"]_vars

C9_Witness ==
  last.op = "close" /\ last.wasClean /\ retriesRef > 0 /\ status = "disconnected"

\* C10 as stated: the counter stays within 0..5, is 0 right after every open,
\* and every unclean close adds exactly 1.
C10_EveryUncleanCloseCounts ==
  [][/\ retriesRef' \in 0 .. 5
     /\ last'.op = "open" => retriesRef' = 0
     /\ (last'.op = "close" /\ ~last'.wasClean) => retriesRef' = retriesRef + 1]_vars

\* C10 amended: the counter stays within 0..5, is 0 right after every open,
\* and an unclean close adds exactly 1 while the counter is below 5 and leaves
\* it at 5 otherwise.
C10_CounterBounded ==
  [][/\ retriesRef' \in 0 .. 5
     /\ last'.op = "open" => retriesRef' = 0
     /\ (last'.op = "close" /\ ~last'.wasClean) =>
          retriesRef' = IF retriesRef < 5 THEN retriesRef + 1 ELSE 5]_vars

C10_Witness ==
  last.op = "close" /\ ~last.wasClean /\ retriesRef = 5 /\ uncleanRun >= 6

\* C11: whenever the identity is absent, between tasks, the mounted manager
\* is torn down (status disconnected, no handle open, no retry timer
\* pending); the step that makes the identity present calls connect() and
\* leaves status connecting with a connecting handle (error when the
\* constructor threw), and an open then makes it connected.
C11_IdentityChange ==
  [][/\ (~auth'.isAuthenticated /\ mounted' /\ pendingClose' = Null) =>
          /\ status' = "disconnected"
          /\ \A h \in Slots : sockets'[h].readyState # "OPEN"
          /\ \A t \in TimerIds : timers'[t].state # "pending"
     /\ last'.op = "LOGIN_SUCCESS" =>
          /\ last'.called
          /\ \/ status' = "connecting" /\ ManagerHandleConnecting'
             \/ status' = "error" /\ wsRef' = Null
     /\ (last'.op = "open" /\ mounted) => status' = "connected"]_vars

\* C12: connect() called while the identity is absent changes nothing of the
\* hook: no handle, no status change, no timer.
C12_ConnectWithoutIdentity ==
  [][(last'.op = "connect" /\ ~(auth.isAuthenticated /\ auth.user # NoUser)) =>
       UNCHANGED hookVars]_vars

C12_Witness ==
  last.op = "connect" /\ ~auth.isAuthenticated /\ status = "disconnected" /\ wsRef = Null

\* C13: between tasks, every open socket is the one the heartbeat interval
\* is armed for.
C13_HeartbeatWhileOpen ==
  pendingClose = Null => \A h \in OpenSlots : heartbeatRef = h

\* C14: between tasks, a heartbeat interval is armed only while the status of
\* the mounted manager is connected.
C14_HeartbeatOnlyConnected ==
  (mounted /\ pendingClose = Null /\ heartbeatRef # Null) => status = "connected"

\* C15: unread changes only by a notification frame (by +1) and by
\* resetUnread() (to 0); while the manager is mounted every notification
\* frame adds exactly 1 and every resetUnread() leaves 0; it is never negative.
C15_UnreadChanges ==
  [][/\ unread' # unread =>
          \/ /\ last'.op = "message" /\ io'.received.type = "notification"
             /\ unread' = unread + 1
          \/ last'.op = "resetUnread" /\ unread' = 0
     /\ (last'.op = "message" /\ io'.received.type = "notification" /\ mounted) =>
          unread' = unread + 1
     /\ last'.op = "resetUnread" => unread' = 0
     /\ unread' >= 0]_vars

C15_Witness ==
  last.op = "message" /\ io.received.type = "notification" /\ unread >= 2

\* C16: a notification frame with the id of the notification frame received
\* just before it leaves unread as it is.
C16_DedupById ==
  [][(/\ last.op = "message" /\ io.received.type = "notification"
      /\ last'.op = "message" /\ io'.received = io.received) =>
       unread' = unread]_vars

\* C17: send() writes one frame to the manager's handle when that handle is
\* open and none otherwise, and changes nothing of the hook or of unread.
C17_Send ==
  [][last'.op = "send" =>
       /\ io'.wrote = (IF ManagerHandleOpen THEN wsRef ELSE Null)
       /\ UNCHANGED <<hookVars, unread>>]_vars

C17_Witness ==
  last.op = "send" /\ io.wrote = Null /\ ManagerHandleConnecting

\* C18: a frame that does not parse, a pong and a frame of another type change
\* neither unread nor anything of the hook (the socket stays open), and a
\* notification frame right after one still adds 1.
C18_OtherFrames ==
  [][/\ (last'.op = "message" /\ io'.received.type # "notification") =>
          UNCHANGED <<hookVars, unread>>
     /\ (/\ last.op = "message" /\ io.received.type # "notification"
         /\ last'.op = "message" /\ io'.received.type = "notification"
         /\ mounted) => unread' = unread + 1]_vars

C18_Witness ==
  last.op = "message" /\ io.received = Garbage /\ ManagerHandleOpen /\ unread >= 1

\* C19: a visibilitychange to visible calls connect() exactly when the
\* identity is present and the manager's handle is absent or not open, and
\* that connect(), unless one is in flight, leaves a connecting handle (error
\* when the constructor threw); any other visibilitychange changes nothing.
C19_Visibility ==
  [][/\ last'.op = "visible" =>
          (last'.called <=>
             (auth.isAuthenticated /\ auth.user # NoUser /\ ~ManagerHandleOpen))
     /\ (last'.op = "visible" /\ last'.called /\ ~isConnectingRef) =>
          \/ status' = "connecting" /\ ManagerHandleConnecting'
          \/ status' = "error"
     /\ (last'.op = "visible" /\ ~last'.called) => UNCHANGED hookVars
     /\ last'.op = "hidden" => (~last'.called /\ UNCHANGED hookVars)]_vars

C19_Witness ==
  /\ last.op = "visible" /\ last.called
  /\ status = "connecting" /\ ManagerHandleConnecting /\ retriesRef = 5

\* C20: a visibilitychange leaves the retry counter as it is; an unclean
\* close at the ceiling leaves the mounted manager in error and schedules
\* nothing; no more than 5 retries are scheduled between two opens.
C20_VisibilityKeepsCeiling ==
  [][/\ last'.op = "visible" => retriesRef' = retriesRef
     /\ (last'.op = "close" /\ ~last'.wasClean /\ retriesRef = 5 /\ mounted) =>
          /\ status' = "error"
          /\ last'.delay = 0
          /\ \A t \in TimerIds : timers'[t].state = "pending" => timers[t].state = "pending"
     /\ retryRun' <= 5]_vars

C20_Witness ==
  /\ last.op = "visible" /\ last.called /\ ManagerHandleConnecting
  /\ retriesRef = 5 /\ retryRun = 5

\* C22: the retry counter goes down only in an open; the connection effect
\* (cleanup() and connect()) of a login or logout, the cleanup() of an
\* unmount, the connect() of a visibilitychange and of a retry timer leave
\* it as it is.
C22_CounterResetOnlyByOpen ==
  [][/\ retriesRef' < retriesRef => last'.op = "open"
     /\ last'.op \in {"LOGIN_SUCCESS", "LOGOUT", "unmount", "visible", "hidden", "retry"} =>
          retriesRef' = retriesRef]_vars

C22_Witness ==
  last.op = "LOGIN_SUCCESS" /\ retriesRef = 5 /\ ManagerHandleConnecting

\* C23: the socket a heartbeat tick or a send() has just written a frame to
\* is open.
C23_WritesOnlyToOpen ==
  io.wrote # Null => sockets[io.wrote].readyState = "OPEN"

C23_Witness ==
  last.op = "heartbeat" /\ io.wrote # Null /\ io.wrote # wsRef

\* C24: an open, close or error event of a socket other than the connecting
\* or open one the manager holds leaves wsRef, heartbeatRef, isConnectingRef
\* and status as they are.
C24_StaleCallbacks ==
  [][(/\ last'.op \in {"open", "close", "error"}
      /\ wsRef # Null
      /\ sockets[wsRef].readyState \in {"CONNECTING", "OPEN"}
      /\ sockets'[wsRef].readyState = sockets[wsRef].readyState) =>
       UNCHANGED <<wsRef, heartbeatRef, isConnectingRef, status>>]_vars

\* C25: between tasks, every connecting or open socket carries the userId of
\* the identity that is authenticated now.
C25_HandlesOfCurrentIdentity ==
  pendingClose = Null =>
    \A h \in Slots :
      sockets[h].readyState \in {"CONNECTING", "OPEN"} =>
        (auth.isAuthenticated /\ sockets[h].env.user = auth.user)

\* C29: at most one retry timer is pending.
C29_OneRetryTimer == Cardinality(PendingTimers) <= 1

\* C26: a login, a logout (the connection effect with its cleanup()) and an
\* unmount leave the unread count as it is.
C26_UnreadSurvivesIdentityChange ==
  [][last'.op \in {"LOGIN_SUCCESS", "LOGOUT", "unmount"} => unread' = unread]_vars

C26_Witness ==
  last.op = "LOGIN_SUCCESS" /\ auth.user = "u2" /\ unread >= 1

\* C30: while isConnectingRef is up some socket is connecting, and when the
\* socket events are delivered the flag comes down again.
C30_FlagComesDown ==
  /\ [](isConnectingRef => \E h \in Slots : sockets[h].readyState = "CONNECTING")
  /\ (isConnectingRef ~> ~isConnectingRef)

C30_Witness ==
  isConnectingRef /\ last.op = "retry" /\ ManagerHandleConnecting /\ retriesRef = 2

\* C27: isAuthenticated is true exactly when user is non-null.
C27_AuthenticatedIffUser == auth.isAuthenticated <=> auth.user # NoUser

\* C21: at most one channel of the session is open, the manager's sockets
\* and the dashboard page's taken together.
C21_SingleChannel ==
  Cardinality(OpenSlots)
    + Cardinality({h \in PageSlots : page.sockets[h].readyState = "OPEN"}) <= 1

\* C28: the likeCount of every post is the number of entries of its likes,
\* and the current user's id is in no likes twice.
C28_LikesConsistent ==
  \A j \in DOMAIN posts :
    /\ posts[j].likeCount = Len(posts[j].likes)
    /\ Cardinality({i \in DOMAIN posts[j].likes : posts[j].likes[i] = auth.user}) <= 1

====
